---------------------------- MODULE Spec2Model ----------------------------
(***************************************************************************)
(* Learning-rate schedules of nerfstudio/engine/schedulers.py.             *)
(*                                                                         *)
(* Every schedule is a function step -> multiplier closed over a config.   *)
(* Numbers are modelled exactly: a float is a rational <<n, d>> in lowest  *)
(* terms, and a value that is not rational (a fractional power, a sine or  *)
(* cosine at a non-special angle) is kept as a symbolic term, so that two  *)
(* values of the model are equal only if the real numbers they denote are  *)
(* equal.  Floating-point rounding is not modelled.                        *)
(***************************************************************************)
EXTENDS Integers, Sequences, FiniteSets, TLC

\* sched    the schedule class the configuration instantiates (_target)
\* cfg      the configuration record (Scheduler.config)
\* lr_init  the initial learning rate handed to get_scheduler
\* step     the step the schedule was last evaluated at (-1: not yet)
\* out      what that evaluation returned or raised
VARIABLES sched, cfg, lr_init, step, out

vars == <<sched, cfg, lr_init, step, out>>

-----------------------------------------------------------------------------
(* Bounds of the model                                                     *)

\* steps 0..MaxStep are evaluated for every small configuration
MaxStep == 4
\* warmup lengths 0..MaxWarm of the small configurations
MaxWarm == 3
\* milestone lists of the small configurations have at most MaxLen entries
MaxLen == 2

-----------------------------------------------------------------------------
(* Exact rational arithmetic: the floats of the program                    *)

Abs(x) == IF x < 0 THEN -x ELSE x

RECURSIVE GCD(_, _)
GCD(a, b) == IF b = 0 THEN a ELSE GCD(b, a % b)

\* the rational n/d (d # 0) in lowest terms with a positive denominator
Rat(n, d) ==
    LET g == GCD(Abs(n), Abs(d))
        s == IF d < 0 THEN -1 ELSE 1
    IN  <<(s * n) \div g, (s * d) \div g>>

RatInt(i) == <<i, 1>>
RatNeg(a) == <<-a[1], a[2]>>
RatAdd(a, b) ==
    LET l == (a[2] \div GCD(a[2], b[2])) * b[2]
    IN  Rat(a[1] * (l \div a[2]) + b[1] * (l \div b[2]), l)
RatSub(a, b) == RatAdd(a, RatNeg(b))
RatMul(a, b) ==
    LET g1 == GCD(Abs(a[1]), b[2])
        g2 == GCD(Abs(b[1]), a[2])
    IN  Rat((a[1] \div g1) * (b[1] \div g2), (a[2] \div g2) * (b[2] \div g1))
RatInv(a) == Rat(a[2], a[1])
RatDiv(a, b) == RatMul(a, RatInv(b))
RatLt(a, b) == a[1] * b[2] < b[1] * a[2]
RatLe(a, b) == a[1] * b[2] <= b[1] * a[2]
RatIsInt(a) == a[2] = 1

RECURSIVE RatPowNat(_, _)
RatPowNat(a, k) == IF k = 0 THEN RatInt(1) ELSE RatMul(a, RatPowNat(a, k - 1))
\* a ** k for an integer k
RatPow(a, k) == IF k >= 0 THEN RatPowNat(a, k) ELSE RatPowNat(RatInv(a), -k)

Zero == RatInt(0)
One == RatInt(1)
Half == Rat(1, 2)
Ten == RatInt(10)

-----------------------------------------------------------------------------
(* Real values of the program                                              *)
(*   [t |-> "rat",  v]          the rational v                             *)
(*   [t |-> "pow",  b, e]       b ^ e, e a rational that is not an integer *)
(*   [t |-> "trig", c, k, f, x] c + k * f(pi * x), f in {"sin", "cos"},    *)
(*                              at an angle where f is not rational        *)

RealRat(v) == [t |-> "rat", v |-> v]

\* b ** e for a rational exponent: a rational when e is an integer
RealPow(b, e) ==
    IF RatIsInt(e) THEN RealRat(RatPow(b, e[1])) ELSE [t |-> "pow", b |-> b, e |-> e]

\* np.cos(np.pi * x): rational exactly when the reduced denominator of x is 1, 2 or 3
np_cos(x) ==
    LET p == Abs(x[1])
        q == x[2]
    IN  IF q = 1 THEN RealRat(IF p % 2 = 0 THEN One ELSE RatInt(-1))
        ELSE IF q = 2 THEN RealRat(Zero)
        ELSE IF q = 3 THEN RealRat(IF p % 6 \in {1, 5} THEN Half ELSE RatNeg(Half))
        ELSE [t |-> "trig", c |-> Zero, k |-> One, f |-> "cos", x |-> x]

\* np.sin(np.pi * x): rational exactly when the reduced denominator of x is 1, 2 or 6
np_sin(x) ==
    LET p == x[1] % (2 * x[2])
        q == x[2]
    IN  IF q = 1 THEN RealRat(Zero)
        ELSE IF q = 2 THEN RealRat(IF p = 1 THEN One ELSE RatInt(-1))
        ELSE IF q = 6 THEN RealRat(IF p \in {1, 5} THEN Half ELSE RatNeg(Half))
        ELSE [t |-> "trig", c |-> Zero, k |-> One, f |-> "sin", x |-> x]

\* real + rational
RealAdd(r, a) ==
    IF r.t = "rat" THEN RealRat(RatAdd(r.v, a))
    ELSE [t |-> "trig", c |-> RatAdd(r.c, a), k |-> r.k, f |-> r.f, x |-> r.x]

\* real * rational
RealMul(r, a) ==
    IF r.t = "rat" THEN RealRat(RatMul(r.v, a))
    ELSE IF a = Zero THEN RealRat(Zero)
    ELSE [t |-> "trig", c |-> RatMul(r.c, a), k |-> RatMul(r.k, a), f |-> r.f, x |-> r.x]

\* np.clip(a, 0, 1)
np_clip01(a) == IF RatLt(a, Zero) THEN Zero ELSE IF RatLt(One, a) THEN One ELSE a

\* the exponent e with x = 10 ^ e, for x a power of ten: np.log(x) in units of ln 10
RECURSIVE Log10(_)
Log10(x) ==
    IF x = One THEN 0
    ELSE IF x[2] = 1 THEN 1 + Log10(Rat(x[1], 10))
    ELSE Log10(Rat(x[1] * 10, x[2])) - 1


np_log(x) == RatInt(Log10(x))
\* np.exp(q * ln 10)
np_exp(q) == RealPow(Ten, q)

\* real / rational, the rational a power of ten when the real is a power
RealDiv(r, a) ==
    IF r.t = "pow" THEN RealPow(r.b, RatSub(r.e, np_log(a)))
    ELSE RealMul(r, RatInv(a))

-----------------------------------------------------------------------------
(* What one evaluation of a schedule leaves behind: the branch taken, the  *)
(* fault raised (if any), the multiplier returned, and the local that      *)
(* decided it (t / progress as a rational, or the milestone index).        *)

NoValue == [t |-> "none"]
NoRat == <<>>
None == <<>>

NotEvaluated ==
    [branch |-> "none", err |-> "none", value |-> NoValue, t |-> NoRat, index |-> -1]
\* Python raises ZeroDivisionError for x / 0 on ints and floats
ZeroDivision(branch) ==
    [branch |-> branch, err |-> "ZeroDivisionError", value |-> NoValue,
     t |-> NoRat, index |-> -1]
Returned(branch, value, t, index) ==
    [branch |-> branch, err |-> "none", value |-> value, t |-> t, index |-> index]

-----------------------------------------------------------------------------
(* Library calls the schedules make                                        *)

\* np.searchsorted(a, v, side="left"): binary search, whatever the order of a
RECURSIVE BinSearchLeft(_, _, _, _)
BinSearchLeft(a, v, lo, hi) ==
    IF lo >= hi THEN lo
    ELSE LET mid == lo + ((hi - lo) \div 2)
         IN  IF a[mid + 1] < v THEN BinSearchLeft(a, v, mid + 1, hi)
             ELSE BinSearchLeft(a, v, lo, mid)
np_searchsorted_left(a, v) == BinSearchLeft(a, v, 0, Len(a))

\* sorted(a)
RECURSIVE Insert(_, _)
Insert(x, a) ==
    IF a = <<>> THEN <<x>>
    ELSE IF x <= Head(a) THEN <<x>> \o a
    ELSE <<Head(a)>> \o Insert(x, Tail(a))
RECURSIVE Sorted(_)
Sorted(a) == IF a = <<>> THEN <<>> ELSE Insert(Head(a), Sorted(Tail(a)))

\* bisect.bisect_right(a, x)
RECURSIVE BisectRight(_, _, _, _)
BisectRight(a, x, lo, hi) ==
    IF lo >= hi THEN lo
    ELSE LET mid == (lo + hi) \div 2
         IN  IF x < a[mid + 1] THEN BisectRight(a, x, lo, mid)
             ELSE BisectRight(a, x, mid + 1, hi)
bisect_right(a, x) == BisectRight(a, x, 0, Len(a))

\* lr_scheduler.MultiStepLR(optimizer, milestones, gamma) at last_epoch:
\* the multiplier gamma ** bisect_right(sorted(milestones), last_epoch)
MultiStepLR(milestones, gamma, last_epoch) ==
    LET index == bisect_right(Sorted(milestones), last_epoch)
    IN  Returned("decay", RealRat(RatPow(gamma, index)), NoRat, index)

\* lr_scheduler.ExponentialLR(optimizer, gamma) at last_epoch, gamma = b ** e:
\* the multiplier gamma ** last_epoch
ExponentialLR(b, e, last_epoch) ==
    Returned("decay", RealPow(b, RatMul(e, RatInt(last_epoch))), NoRat, -1)

-----------------------------------------------------------------------------
(* The schedules                                                           *)

\* mutant: the tie at a milestone broken as np.searchsorted(side="left") breaks it
MultiStepScheduler_get_scheduler_left(c, s) ==
    LET index == np_searchsorted_left(Sorted(c.milestones), s)
    IN  Returned("decay", RealRat(RatPow(c.gamma, index)), NoRat, index)

\* MultiStepScheduler.get_scheduler
MultiStepScheduler_get_scheduler(c, s) == MultiStepLR(c.milestones, c.gamma, s)

\* mutant: an unset lr_final falls back to lr_pre_warmup
ExponentialDecay_lr_final_pre(c, li) ==
    IF c.lr_final = None THEN c.lr_pre_warmup ELSE c.lr_final

\* ExponentialDecayScheduler.get_scheduler: lr_final defaults to lr_init
ExponentialDecay_lr_final(c, li) == IF c.lr_final = None THEN li ELSE c.lr_final

\* mutant: the warmup branch also taken at step = warmup_steps
ExponentialDecay_in_warmup_le(c, s) == s <= c.warmup_steps

\* ExponentialDecayScheduler.get_scheduler.func, the test that selects the warmup
ExponentialDecay_in_warmup(c, s) == s < c.warmup_steps

\* mutant: the warmup length is not subtracted from max_steps
ExponentialDecay_span_max(c) == c.max_steps

\* ExponentialDecayScheduler.get_scheduler.func, the divisor of the decay progress
ExponentialDecay_span(c) == c.max_steps - c.warmup_steps

\* mutant: the progress is not clipped
ExponentialDecay_t_unclipped(c, s) == Rat(s - c.warmup_steps, ExponentialDecay_span(c))

\* ExponentialDecayScheduler.get_scheduler.func, the decay progress t
ExponentialDecay_t(c, s) ==
    np_clip01(Rat(s - c.warmup_steps, ExponentialDecay_span(c)))

\* ExponentialDecayScheduler.get_scheduler.func
ExponentialDecay_func(c, li, s) ==
    LET lr_final == ExponentialDecay_lr_final(c, li)
    IN  IF ExponentialDecay_in_warmup(c, s)
        THEN IF c.warmup_steps = 0 THEN ZeroDivision("warmup")
             ELSE IF c.ramp = "cosine"
             THEN LET x  == np_clip01(Rat(s, c.warmup_steps))
                      lr == RealAdd(RealMul(np_sin(RatMul(Half, x)),
                                            RatSub(li, c.lr_pre_warmup)),
                                    c.lr_pre_warmup)
                  IN  Returned("warmup", RealDiv(lr, li), x, -1)
             ELSE LET lr == RealRat(RatAdd(c.lr_pre_warmup,
                                 RatDiv(RatMul(RatSub(li, c.lr_pre_warmup), RatInt(s)),
                                        RatInt(c.warmup_steps))))
                  IN  Returned("warmup", RealDiv(lr, li), Rat(s, c.warmup_steps), -1)
        ELSE IF ExponentialDecay_span(c) = 0 THEN ZeroDivision("decay")
             ELSE LET t  == ExponentialDecay_t(c, s)
                      lr == np_exp(RatAdd(RatMul(np_log(li), RatSub(One, t)),
                                          RatMul(np_log(lr_final), t)))
                  IN  Returned("decay", RealDiv(lr, li), t, -1)

\* mutant: the progress is clipped to [0, 1]
CosineDecay_progress_clipped(c, s) ==
    np_clip01(Rat(s - c.warm_up_end, c.max_steps - c.warm_up_end))

\* CosineDecayScheduler.get_scheduler.func, the decay progress
CosineDecay_progress(c, s) == Rat(s - c.warm_up_end, c.max_steps - c.warm_up_end)

\* CosineDecayScheduler.get_scheduler.func
CosineDecay_func(c, s) ==
    IF s < c.warm_up_end
    THEN IF c.warm_up_end = 0 THEN ZeroDivision("warmup")
         ELSE Returned("warmup", RealRat(Rat(s, c.warm_up_end)), NoRat, -1)
    ELSE IF c.max_steps - c.warm_up_end = 0 THEN ZeroDivision("decay")
         ELSE LET alpha    == c.learning_rate_alpha
                  progress == CosineDecay_progress(c, s)
                  learning_factor ==
                      RealAdd(RealMul(RealMul(RealAdd(np_cos(progress), One), Half),
                                      RatSub(One, alpha)),
                              alpha)
              IN  Returned("decay", learning_factor, progress, -1)

\* MultiStepWarmupScheduler.get_scheduler.func, the test that selects the warmup
MultiStepWarmup_in_warmup(c, s) == s < c.warm_up_end

\* mutant: side="right"
MultiStepWarmup_index_right(c, s) == bisect_right(c.milestones, s)

\* MultiStepWarmupScheduler.get_scheduler.func, the milestone index
MultiStepWarmup_index(c, s) == np_searchsorted_left(c.milestones, s)

\* MultiStepWarmupScheduler.get_scheduler.func
MultiStepWarmup_func(c, s) ==
    IF MultiStepWarmup_in_warmup(c, s)
    THEN IF c.warm_up_end = 0 THEN ZeroDivision("warmup")
         ELSE Returned("warmup", RealRat(Rat(s, c.warm_up_end)), NoRat, -1)
    ELSE LET index == MultiStepWarmup_index(c, s)
         IN  Returned("decay", RealRat(RatPow(c.gamma, index)), NoRat, index)

\* mutant: the exponent is off by one step
Exponential_ratio_exponent_off(c) == Rat(1, c.max_steps + 1)

\* ExponentialSchedulerConfig.setup: the exponent 1.0 / max_steps of the per-step
\* ratio decay_rate ** (1.0 / max_steps)
Exponential_ratio_exponent(c) == Rat(1, c.max_steps)

\* ExponentialSchedulerConfig.setup followed by the built ExponentialLR at step s
ExponentialSchedulerConfig_setup(c, s) ==
    IF c.max_steps = 0 THEN ZeroDivision("setup")
    ELSE ExponentialLR(c.decay_rate, Exponential_ratio_exponent(c), s)

\* mutant: warm_up_end and max_steps passed in each other's position
NeuSSchedulerConfig_setup_swapped(c) ==
    <<c.max_steps, c.learning_rate_alpha, c.warm_up_end>>

\* NeuSSchedulerConfig.setup: the positional arguments after the optimizer
NeuSSchedulerConfig_setup(c) == <<c.warm_up_end, c.learning_rate_alpha, c.max_steps>>

\* NeuSScheduler.__init__.func, args = <<warm_up_end, learning_rate_alpha, max_steps>>
NeuSScheduler_func(args, s) ==
    LET warm_up_end         == args[1]
        learning_rate_alpha == args[2]
        max_steps           == args[3]
    IN  IF s < warm_up_end
        THEN IF warm_up_end = 0 THEN ZeroDivision("warmup")
             ELSE Returned("warmup", RealRat(Rat(s, warm_up_end)), NoRat, -1)
        ELSE IF max_steps - warm_up_end = 0 THEN ZeroDivision("decay")
             ELSE LET alpha    == learning_rate_alpha
                      progress == Rat(s - warm_up_end, max_steps - warm_up_end)
                      learning_factor ==
                          RealAdd(RealMul(RealMul(RealAdd(np_cos(progress), One), Half),
                                          RatSub(One, alpha)),
                                  alpha)
                  IN  Returned("decay", learning_factor, progress, -1)


-----------------------------------------------------------------------------
(* Configurations and steps                                                *)

Scheds == {"MultiStep", "ExponentialDecay", "CosineDecay", "MultiStepWarmup",
           "Exponential", "NeuS"}

\* the lr_init handed to get_scheduler by the optimizer setup
LrInits == {Rat(1, 10), Rat(1, 100)}

Gammas == {Rat(33, 100), Half}
Alphas == {Rat(1, 20), Rat(1, 4)}

\* milestone lists of at most MaxLen entries, in any order, repeats allowed
SmallMilestones == UNION {[1..n -> 0..MaxStep] : n \in 0..MaxLen}

MultiStepSchedulerConfig_default ==
    [max_steps |-> 1000000, gamma |-> Rat(33, 100),
     milestones |-> <<500000, 750000, 900000>>]
MultiStepConfigs ==
    {MultiStepSchedulerConfig_default} \cup
    {[max_steps |-> 1000000, gamma |-> g, milestones |-> m] :
        g \in Gammas, m \in SmallMilestones}

ExponentialDecaySchedulerConfig_default ==
    [lr_pre_warmup |-> Rat(1, 100000000), lr_final |-> None, warmup_steps |-> 0,
     max_steps |-> 100000, ramp |-> "cosine"]
\* a long schedule with a warmup (lr_pre_warmup is 1e-6, so that every
\* intermediate rational of the linear ramp stays within 32 bits)
ExponentialDecaySchedulerConfig_example ==
    [lr_pre_warmup |-> Rat(1, 1000000), lr_final |-> Rat(1, 10000),
     warmup_steps |-> 100, max_steps |-> 1000, ramp |-> "linear"]
ExponentialDecayConfigs ==
    {ExponentialDecaySchedulerConfig_default, ExponentialDecaySchedulerConfig_example} \cup
    {[lr_pre_warmup |-> Rat(1, 1000), lr_final |-> f, warmup_steps |-> w,
      max_steps |-> m, ramp |-> r] :
        f \in {None, Rat(1, 100), Rat(1, 1000)}, w \in 0..MaxWarm, m \in 0..MaxStep,
        r \in {"linear", "cosine"}}

CosineDecaySchedulerConfig_default ==
    [warm_up_end |-> 5000, learning_rate_alpha |-> Rat(1, 20), max_steps |-> 300000]
CosineDecayConfigs ==
    {CosineDecaySchedulerConfig_default} \cup
    {[warm_up_end |-> w, learning_rate_alpha |-> a, max_steps |-> m] :
        w \in 0..MaxWarm, a \in Alphas, m \in 0..MaxStep}

MultiStepWarmupSchedulerConfig_default ==
    [warm_up_end |-> 5000, milestones |-> <<300000, 400000, 500000>>,
     gamma |-> Rat(33, 100)]
MultiStepWarmupConfigs ==
    {MultiStepWarmupSchedulerConfig_default} \cup
    {[warm_up_end |-> w, milestones |-> m, gamma |-> g] :
        w \in 0..MaxWarm, m \in SmallMilestones, g \in Gammas}

ExponentialSchedulerConfig_default == [decay_rate |-> Rat(1, 10), max_steps |-> 1000000]
\* the configuration of the specification's worked example
ExponentialSchedulerConfig_example == [decay_rate |-> Rat(1, 10), max_steps |-> 1000]
ExponentialConfigs ==
    {ExponentialSchedulerConfig_default, ExponentialSchedulerConfig_example} \cup
    {[decay_rate |-> d, max_steps |-> m] : d \in {Rat(1, 10), Half}, m \in 0..MaxWarm}

NeuSSchedulerConfig_default ==
    [warm_up_end |-> 5000, learning_rate_alpha |-> Rat(1, 20), max_steps |-> 300000]
NeuSConfigs ==
    {NeuSSchedulerConfig_default} \cup
    {[warm_up_end |-> w, learning_rate_alpha |-> a, max_steps |-> m] :
        w \in 0..MaxWarm, a \in Alphas, m \in 0..MaxStep}

ConfigsOf(k) ==
    CASE k = "MultiStep" -> MultiStepConfigs
      [] k = "ExponentialDecay" -> ExponentialDecayConfigs
      [] k = "CosineDecay" -> CosineDecayConfigs
      [] k = "MultiStepWarmup" -> MultiStepWarmupConfigs
      [] k = "Exponential" -> ExponentialConfigs
      [] k = "NeuS" -> NeuSConfigs

\* the steps a schedule is evaluated at: every small step, and the steps around
\* the thresholds of the default configurations
SmallSteps == 0..MaxStep
MultiStepSteps == SmallSteps \cup {499999, 500000, 500001, 750000, 900000, 1000000}
ExponentialDecaySteps == SmallSteps \cup {50, 100, 550, 1000, 2000, 50000, 100000, 200000}
CosineDecaySteps ==
    SmallSteps \cup {2500, 4999, 5000, 100000, 152500, 300000, 595000}
MultiStepWarmupSteps ==
    SmallSteps \cup {4999, 5000, 299999, 300000, 300001, 400000, 400001, 500000, 500001}
\* for the bare exponential: the small steps, and one and two times max_steps
ExponentialSteps(c) == SmallSteps \cup {c.max_steps, 2 * c.max_steps}

-----------------------------------------------------------------------------
(* The state machine: a configuration is constructed (Init), and its       *)
(* schedule is then evaluated at one step after another.                   *)

Init ==
    /\ sched \in Scheds
    /\ cfg \in ConfigsOf(sched)
    /\ lr_init \in LrInits
    /\ step = -1
    /\ out = NotEvaluated

MultiStepEval ==
    /\ sched = "MultiStep"
    /\ \E s \in MultiStepSteps :
          /\ step' = s
          /\ out' = MultiStepScheduler_get_scheduler(cfg, s)
    /\ UNCHANGED <<sched, cfg, lr_init>>

ExponentialDecayEval ==
    /\ sched = "ExponentialDecay"
    /\ \E s \in ExponentialDecaySteps :
          /\ step' = s
          /\ out' = ExponentialDecay_func(cfg, lr_init, s)
    /\ UNCHANGED <<sched, cfg, lr_init>>

CosineDecayEval ==
    /\ sched = "CosineDecay"
    /\ \E s \in CosineDecaySteps :
          /\ step' = s
          /\ out' = CosineDecay_func(cfg, s)
    /\ UNCHANGED <<sched, cfg, lr_init>>

MultiStepWarmupEval ==
    /\ sched = "MultiStepWarmup"
    /\ \E s \in MultiStepWarmupSteps :
          /\ step' = s
          /\ out' = MultiStepWarmup_func(cfg, s)
    /\ UNCHANGED <<sched, cfg, lr_init>>

ExponentialEval ==
    /\ sched = "Exponential"
    /\ \E s \in ExponentialSteps(cfg) :
          /\ step' = s
          /\ out' = ExponentialSchedulerConfig_setup(cfg, s)
    /\ UNCHANGED <<sched, cfg, lr_init>>

NeuSEval ==
    /\ sched = "NeuS"
    /\ \E s \in CosineDecaySteps :
          /\ step' = s
          /\ out' = NeuSScheduler_func(NeuSSchedulerConfig_setup(cfg), s)
    /\ UNCHANGED <<sched, cfg, lr_init>>

Next ==
    \/ MultiStepEval
    \/ ExponentialDecayEval
    \/ CosineDecayEval
    \/ MultiStepWarmupEval
    \/ ExponentialEval
    \/ NeuSEval

Spec == Init /\ [][Next]_vars

Evaluated == out.branch # "none"

-----------------------------------------------------------------------------
(* Vocabulary of the properties                                            *)

NonDecreasing(a) == \A i \in 1..(Len(a) - 1) : a[i] <= a[i + 1]
CountLess(a, v) == Cardinality({i \in DOMAIN a : a[i] < v})
CountLessEq(a, v) == Cardinality({i \in DOMAIN a : a[i] <= v})

\* the warmup length and the end of the step range of the current configuration
WarmOf == IF sched = "ExponentialDecay" THEN cfg.warmup_steps ELSE cfg.warm_up_end
HasWarmup == sched \in {"ExponentialDecay", "CosineDecay", "MultiStepWarmup", "NeuS"}
HasRange == sched \in {"ExponentialDecay", "CosineDecay", "NeuS"}

IsRat(r) == r.t = "rat"
ValueIs(a) == out.err = "none" /\ out.value = RealRat(a)

-----------------------------------------------------------------------------
(* C1: multi-step-with-warmup, sorted milestones: at every step >=         *)
(* warm_up_end the multiplier is gamma to the number of milestones         *)
(* strictly less than the step; a step equal to a milestone does not       *)
(* count that milestone.                                                   *)
C1_LeftInsertion ==
    (/\ sched = "MultiStepWarmup"
     /\ Evaluated
     /\ step >= cfg.warm_up_end
     /\ NonDecreasing(cfg.milestones))
    => /\ out.branch = "decay"
       /\ out.index = CountLess(cfg.milestones, step)
       /\ ValueIs(RatPow(cfg.gamma, CountLess(cfg.milestones, step)))

\* a step equal to the second milestone, past the warmup: the index is 1
C1_Witness ==
    /\ sched = "MultiStepWarmup"
    /\ Evaluated
    /\ step >= cfg.warm_up_end
    /\ Len(cfg.milestones) = 2
    /\ cfg.milestones[1] < cfg.milestones[2]
    /\ cfg.milestones[2] = step
    /\ out.index = 1
    /\ out.value = RealRat(cfg.gamma)

IsMultiStepWarmupDefault ==
    sched = "MultiStepWarmup" /\ cfg = MultiStepWarmupSchedulerConfig_default

(* C2 as stated: with warm_up_end=5000, milestones=[300000,400000,500000], *)
(* gamma=0.33 the multiplier is gamma^1 at step 300000, 1.0 at step        *)
(* 299999 and below 1.0 at step 4999.                                      *)
C2_AsStated ==
    (IsMultiStepWarmupDefault /\ Evaluated)
    => /\ (step = 300000 => ValueIs(RatPow(cfg.gamma, 1)))
       /\ (step = 299999 => ValueIs(One))
       /\ (step = 4999 => out.err = "none" /\ IsRat(out.value) /\ RatLt(out.value.v, One))

(* C2 amended: with the same configuration the multiplier is gamma^0 = 1.0 *)
(* at step 300000 (index 0) and gamma^1 first at step 300001; it is 1.0 at *)
(* step 299999 and below 1.0 at step 4999.                                 *)
C2_Amended ==
    (IsMultiStepWarmupDefault /\ Evaluated)
    => /\ (step = 300000 => out.index = 0 /\ ValueIs(One))
       /\ (step = 300001 => out.index = 1 /\ ValueIs(cfg.gamma))
       /\ (step = 299999 => out.index = 0 /\ ValueIs(One))
       /\ (step = 4999 => /\ out.branch = "warmup"
                          /\ ValueIs(Rat(4999, 5000))
                          /\ RatLt(out.value.v, One))

C2_Witness ==
    /\ IsMultiStepWarmupDefault
    /\ step = 300000
    /\ out.branch = "decay"
    /\ out.value = RealRat(One)

(* C3: multi-step decay: at every step the multiplier is gamma to the      *)
(* number of milestones <= step (1.0 before the first milestone, a step    *)
(* equal to a milestone counts it); for milestones (500000, 750000,        *)
(* 900000) the exponent is 0 at step 0, 1 at 500000, 2 at 750000 and 3 at  *)
(* 1000000.                                                                *)
C3_MilestonesReached ==
    (sched = "MultiStep" /\ Evaluated)
    => /\ ValueIs(RatPow(cfg.gamma, CountLessEq(cfg.milestones, step)))
       /\ out.index = CountLessEq(cfg.milestones, step)
       /\ (cfg = MultiStepSchedulerConfig_default =>
             /\ (step = 0 => out.index = 0 /\ ValueIs(One))
             /\ (step = 500000 => out.index = 1)
             /\ (step = 750000 => out.index = 2)
             /\ (step = 1000000 => out.index = 3))

C3_Witness ==
    /\ sched = "MultiStep"
    /\ cfg = MultiStepSchedulerConfig_default
    /\ step = 750000
    /\ out.index = 2
    /\ out.value = RealRat(Rat(1089, 10000))

InRangeSchedule == sched \in {"ExponentialDecay", "CosineDecay"}

(* C4 as stated: exponential-with-warmup and cosine-with-warmup: every     *)
(* configuration with warmup length >= max_steps faults when evaluated at  *)
(* a step >= the warmup length.                                            *)
C4_AsStated ==
    (/\ InRangeSchedule
     /\ Evaluated
     /\ WarmOf >= cfg.max_steps
     /\ step >= WarmOf)
    => out.err = "ZeroDivisionError"

(* C4 amended: exponential-with-warmup and cosine-with-warmup: evaluated   *)
(* at a step >= the warmup length, the schedule faults (division by zero)  *)
(* exactly when the warmup length equals max_steps; with the warmup length *)
(* above max_steps it returns a multiplier, which is 1 for the             *)
(* exponential schedule.                                                   *)
C4_Amended ==
    (/\ InRangeSchedule
     /\ Evaluated
     /\ step >= WarmOf)
    => /\ out.branch = "decay"
       /\ (out.err = "ZeroDivisionError" <=> WarmOf = cfg.max_steps)
       /\ (WarmOf > cfg.max_steps => out.value # NoValue)
       /\ (WarmOf > cfg.max_steps /\ sched = "ExponentialDecay" => ValueIs(One))

C4_Witness ==
    /\ InRangeSchedule
    /\ Evaluated
    /\ WarmOf = cfg.max_steps
    /\ WarmOf > 0
    /\ step >= WarmOf
    /\ out.err = "ZeroDivisionError"

(* C5: exponential decay with warmup, warmup_steps < max_steps: in the     *)
(* decay phase t is within [0, 1], is 0 at step = warmup_steps (multiplier *)
(* 1) and 1 at every step >= max_steps, where the multiplier is the one at *)
(* max_steps, lr_final / lr_init.                                          *)
C5_FlatAfterMaxSteps ==
    (/\ sched = "ExponentialDecay"
     /\ Evaluated
     /\ cfg.warmup_steps < cfg.max_steps
     /\ step >= cfg.warmup_steps)
    => /\ out.err = "none"
       /\ RatLe(Zero, out.t) /\ RatLe(out.t, One)
       /\ (step = cfg.warmup_steps => out.t = Zero /\ ValueIs(One))
       /\ (step >= cfg.max_steps =>
             /\ out.t = One
             /\ ValueIs(RatDiv(IF cfg.lr_final = None THEN lr_init ELSE cfg.lr_final,
                               lr_init))
             /\ out.value = ExponentialDecay_func(cfg, lr_init, cfg.max_steps).value)

C5_Witness ==
    /\ sched = "ExponentialDecay"
    /\ 0 < cfg.warmup_steps
    /\ cfg.warmup_steps < cfg.max_steps
    /\ step > cfg.max_steps
    /\ cfg.lr_final # None
    /\ cfg.lr_final # lr_init
    /\ out.t = One
    /\ out.value = RealRat(RatDiv(cfg.lr_final, lr_init))

(* C6: cosine decay with linear warmup, 0 < warm_up_end < max_steps: the   *)
(* multiplier is 0 at step 0, step / warm_up_end below warm_up_end, 1 at   *)
(* step = warm_up_end (progress 0) and learning_rate_alpha at step =       *)
(* max_steps (progress 1); beyond max_steps the progress exceeds 1.        *)
C6_CosineShape ==
    (/\ sched = "CosineDecay"
     /\ Evaluated
     /\ 0 < cfg.warm_up_end
     /\ cfg.warm_up_end < cfg.max_steps)
    => /\ out.err = "none"
       /\ (step = 0 => ValueIs(Zero))
       /\ (step < cfg.warm_up_end =>
             out.branch = "warmup" /\ ValueIs(Rat(step, cfg.warm_up_end)))
       /\ (step >= cfg.warm_up_end => out.branch = "decay")
       /\ (step = cfg.warm_up_end => out.t = Zero /\ ValueIs(One))
       /\ (step = cfg.max_steps => out.t = One /\ ValueIs(cfg.learning_rate_alpha))
       /\ (step > cfg.max_steps => RatLt(One, out.t))

C6_Witness ==
    /\ sched = "CosineDecay"
    /\ 0 < cfg.warm_up_end
    /\ cfg.warm_up_end < cfg.max_steps
    /\ step > cfg.max_steps
    /\ out.branch = "decay"
    /\ RatLt(One, out.t)

(* C7: exponential decay with warmup, lr_final unset: at every step >=     *)
(* warmup_steps the multiplier is 1, whatever max_steps # warmup_steps.    *)
C7_UnsetFinalIsFlat ==
    (/\ sched = "ExponentialDecay"
     /\ Evaluated
     /\ cfg.lr_final = None
     /\ cfg.max_steps # cfg.warmup_steps
     /\ step >= cfg.warmup_steps)
    => ValueIs(One)

\* strictly inside the decay: 0 < t < 1
C7_Witness ==
    /\ sched = "ExponentialDecay"
    /\ cfg.lr_final = None
    /\ out.branch = "decay"
    /\ out.err = "none"
    /\ RatLt(Zero, out.t) /\ RatLt(out.t, One)
    /\ out.value = RealRat(One)

(* C8: bare exponential decay, max_steps > 0: there is no warmup, and      *)
(* after k * max_steps steps the multiplier is decay_rate ^ k (k = 0, 1,   *)
(* 2).                                                                     *)
C8_GeometricDecay ==
    (/\ sched = "Exponential"
     /\ Evaluated
     /\ cfg.max_steps > 0)
    => /\ out.branch = "decay"
       /\ \A k \in 0..2 : step = k * cfg.max_steps => ValueIs(RatPow(cfg.decay_rate, k))

C8_Witness ==
    /\ sched = "Exponential"
    /\ cfg.max_steps = 1000
    /\ step = 2000
    /\ out.value = RealRat(Rat(1, 100))

(* C9: NeuSScheduler and CosineDecayScheduler agree: for the same          *)
(* (warm_up_end, learning_rate_alpha, max_steps) and step they take the    *)
(* same branch, return the same multiplier and fault on the same inputs.   *)
C9_NeuSIsCosine ==
    /\ (sched = "NeuS" /\ Evaluated => out = CosineDecay_func(cfg, step))
    /\ (sched = "CosineDecay" /\ Evaluated =>
          out = NeuSScheduler_func(NeuSSchedulerConfig_setup(cfg), step))

\* strictly inside the decay of a NeuS schedule, at an irrational multiplier
C9_Witness ==
    /\ sched = "NeuS"
    /\ out.branch = "decay"
    /\ out.err = "none"
    /\ out.value.t = "trig"
    /\ cfg.warm_up_end > 0

(* C10: in every schedule with a warmup the division by the warmup length  *)
(* is reached only with 0 <= step < warmup length, so never with a warmup  *)
(* length of 0; with a warmup length of 0 every step, step 0 included, is  *)
(* evaluated by the post-warmup branch, and the only division that faults  *)
(* is the one of the decay progress.                                       *)
C10_NoZeroWarmupDivision ==
    (HasWarmup /\ Evaluated)
    => /\ (out.branch = "warmup" <=> step < WarmOf)
       /\ (out.branch = "warmup" => 0 <= step /\ WarmOf > 0 /\ out.err = "none")
       /\ (WarmOf = 0 => out.branch = "decay")
       /\ (out.err = "ZeroDivisionError" =>
             out.branch = "decay" /\ HasRange /\ cfg.max_steps = WarmOf)

C10_Witness ==
    /\ sched = "ExponentialDecay"
    /\ cfg.warmup_steps = 0
    /\ step = 0
    /\ out.branch = "decay"
    /\ out.err = "none"
=============================================================================
